---------------------------- MODULE Spec2Model ----------------------------
(***************************************************************************)
(* Model of api/core/agent/tools/file_dispatcher.py: FileDispatcherTool,   *)
(* the agent tool that dispatches a file of its catalog either to the      *)
(* model itself (target "self") or to a named parameter of another tool,   *)
(* by recording it in the shared tool_file_map.                            *)
(*                                                                         *)
(* Python strings are sequences of one-character strings, so that strip(), *)
(* startswith() and slicing are computed and not assumed.  None and a      *)
(* missing dictionary key are the two sentinels None and Absent; each is a *)
(* one-element sequence whose element is no character.                     *)
(***************************************************************************)
EXTENDS Integers, Sequences, FiniteSets, TLC

VARIABLES
    files,          \* self.files: the sequence of File given to __init__
    file_map,       \* self.file_map: filename -> File
    tool_file_map,  \* per instance: the dict object self.tool_file_map refers to
    heap,           \* dict object -> its content {tool_name: {param_name: File}}
    supplied,       \* per instance: the tool_file_map argument of __init__
    last,           \* the most recent _invoke call: arguments, messages, raise
    calls,          \* number of _invoke calls started so far
    routed,         \* history: per dict object, (tool, param) -> File of the
                    \* last routed-delivery message emitted for that pair
    thr,            \* per thread: position inside lines 173-183 and its locals
    innerId         \* tool_name -> who created the inner dict now stored there

vars == <<files, file_map, tool_file_map, heap, supplied, last, calls, routed,
          thr, innerId>>

----------------------------------------------------------------------------
(* Bounds *)

MaxCalls == 2

----------------------------------------------------------------------------
(* Python values *)

None == <<"None">>
Absent == <<"Absent">>

SP == " "
TAB == "\t"
Whitespace == {SP, TAB}

S_self == <<"s", "e", "l", "f">>
S_file == <<"f", "i", "l", "e">>
S_functions == <<"f", "u", "n", "c", "t", "i", "o", "n", "s", ".">>
S_t == <<"t">>
S_p == <<"p">>
S_a == <<"a">>
S_b == <<"b">>
S_empty == <<>>

\* tool_name[10:] at line 162
PrefixCut == 10

\* `not x` for x None or a str
Falsy(x) == x = None \/ x = S_empty

RECURSIVE lstrip(_)
lstrip(s) == IF s # <<>> /\ Head(s) \in Whitespace THEN lstrip(Tail(s)) ELSE s

RECURSIVE rstrip(_)
rstrip(s) ==
    IF s # <<>> /\ s[Len(s)] \in Whitespace
    THEN rstrip(SubSeq(s, 1, Len(s) - 1))
    ELSE s

\* str.strip()
strip(s) == rstrip(lstrip(s))

\* str.startswith(p)
startswith(s, p) == Len(s) >= Len(p) /\ SubSeq(s, 1, Len(p)) = p

\* Mutant: the slice starts one character early and keeps the "."
SliceFrom_OffByOne(s, n) == SubSeq(s, n, Len(s))

\* s[n:]
SliceFrom(s, n) == SubSeq(s, n + 1, Len(s))

\* dict.get(key, default) on the tool_parameters dict
Get(d, key, default) == IF d[key] = Absent THEN default ELSE d[key]

----------------------------------------------------------------------------
(* Files and the catalog *)

File(name, n) == [filename |-> name, id |-> n]

FA == File(S_a, 1)
FB == File(S_b, 2)
FA2 == File(S_a, 3)
FE == File(S_empty, 4)

\* file_map.get(file_id) when the key is missing
NoFile == File(None, 0)

\* {f.filename: f for f in files}: a later file replaces an earlier one
BuildFileMap(fs) ==
    [k \in {fs[i].filename : i \in DOMAIN fs} |->
        LET last_i == CHOOSE i \in DOMAIN fs :
                        /\ fs[i].filename = k
                        /\ \A j \in DOMAIN fs : fs[j].filename = k => j <= i
        IN fs[last_i]]

FileMapGet(fm, file_id) == IF file_id \in DOMAIN fm THEN fm[file_id] ELSE NoFile

----------------------------------------------------------------------------
(* Messages *)

NoMeta == [k \in {} |-> None]

create_text_message(text, arg) ==
    [type |-> "TEXT", text |-> text, arg |-> arg, meta |-> NoMeta]

FileMessage(meta) ==
    [type |-> "FILE", text |-> "", arg |-> S_empty, meta |-> meta]

MsgFileIdRequired == create_text_message("File ID is required", S_empty)
MsgNotFound(file_id) == create_text_message("File with ID '{file_id}' not found", file_id)
MsgTargetRequired == create_text_message("Target is required", S_empty)
MsgPrefixRemoved(tool_name) ==
    create_text_message("Note: Removed 'functions.' prefix. Using tool name: '{tool_name}'",
                        tool_name)
MsgToolNameEmpty == create_text_message("Tool name cannot be empty", S_empty)
MsgParamNameEmpty == create_text_message("Parameter name cannot be empty", S_empty)

SelfDelivery(file) == FileMessage([file |-> file, target |-> S_self])
RoutedDelivery(file, tool_name, param_name) ==
    FileMessage([file |-> file, target_tool |-> tool_name, parameter_name |-> param_name])

----------------------------------------------------------------------------
(* _invoke *)

EmptyDict == [k \in {} |-> NoMeta]

\* The outcome of one call: the messages yielded, whether an exception left
\* the generator, and the content of the tool_file_map dict afterwards.
Outcome(msgs, raised, tfm) == [msgs |-> msgs, raised |-> raised, tfm |-> tfm]

\* Mutant: the target is not stripped before it is used as the tool name
ToolNameOf_NoStrip(target) ==
    IF startswith(target, S_functions)
    THEN SliceFrom(target, PrefixCut)
    ELSE target

\* Lines 160-163: the tool name the target stands for
ToolNameOf(target) ==
    LET tool_name == strip(target)
    IN IF startswith(tool_name, S_functions)
       THEN SliceFrom(tool_name, PrefixCut)
       ELSE tool_name

\* Mutant: an entry already pending for the pair is kept (setdefault)
Store_FirstWins(tfm, tool_name, param_name, file) ==
    LET inner == IF tool_name \in DOMAIN tfm THEN tfm[tool_name] ELSE EmptyDict
        inner2 == [p \in DOMAIN inner \cup {param_name} |->
                      IF p \in DOMAIN inner THEN inner[p] ELSE file]
    IN [t \in DOMAIN tfm \cup {tool_name} |->
          IF t = tool_name THEN inner2 ELSE tfm[t]]

\* Lines 173-176
Store(tfm, tool_name, param_name, file) ==
    LET inner == IF tool_name \in DOMAIN tfm THEN tfm[tool_name] ELSE EmptyDict
        inner2 == [p \in DOMAIN inner \cup {param_name} |->
                      IF p = param_name THEN file ELSE inner[p]]
    IN [t \in DOMAIN tfm \cup {tool_name} |->
          IF t = tool_name THEN inner2 ELSE tfm[t]]

\* Mutant: the file is stored before the parameter name is checked
DispatchToTool_StoreFirst(tfm, file, target, parameter_name) ==
    IF parameter_name = None
    THEN Outcome(<<>>, TRUE, tfm)
    ELSE
    LET stripped == strip(target)
        param_name == strip(parameter_name)
        had_prefix == startswith(stripped, S_functions)
        tool_name == IF had_prefix THEN SliceFrom(stripped, PrefixCut) ELSE stripped
        note == IF had_prefix THEN <<MsgPrefixRemoved(tool_name)>> ELSE <<>>
        stored == [t \in DOMAIN tfm \cup {tool_name} |->
                     IF t = tool_name
                     THEN [p \in (IF t \in DOMAIN tfm THEN DOMAIN tfm[t] ELSE {})
                                  \cup {param_name} |->
                             IF p = param_name THEN file ELSE tfm[t][p]]
                     ELSE tfm[t]]
    IN IF Falsy(tool_name)
       THEN Outcome(note \o <<MsgToolNameEmpty>>, FALSE, tfm)
       ELSE IF Falsy(param_name)
       THEN Outcome(note \o <<MsgParamNameEmpty>>, FALSE, stored)
       ELSE Outcome(note \o <<RoutedDelivery(file, tool_name, param_name)>>,
                    FALSE, stored)

\* Lines 155-183: the else branch, dispatch to a tool
DispatchToTool(tfm, file, target, parameter_name) ==
    IF parameter_name = None
    THEN \* line 158: None has no strip(); AttributeError, nothing yielded yet
         Outcome(<<>>, TRUE, tfm)
    ELSE
    LET stripped == strip(target)
        param_name == strip(parameter_name)
        had_prefix == startswith(stripped, S_functions)
        tool_name == ToolNameOf(target)
        note == IF had_prefix THEN <<MsgPrefixRemoved(tool_name)>> ELSE <<>>
    IN IF Falsy(tool_name)
       THEN Outcome(note \o <<MsgToolNameEmpty>>, FALSE, tfm)
       ELSE IF Falsy(param_name)
       THEN Outcome(note \o <<MsgParamNameEmpty>>, FALSE, tfm)
       ELSE Outcome(note \o <<RoutedDelivery(file, tool_name, param_name)>>,
                    FALSE,
                    Store(tfm, tool_name, param_name, file))

\* Mutant: parameter_name is stripped before the target is looked at
_invoke_StripsFirst(fm, tfm, tool_parameters) ==
    LET file_id == Get(tool_parameters, "file_id", None)
        target == Get(tool_parameters, "target", None)
        parameter_name == Get(tool_parameters, "parameter_name", S_file)
        file == FileMapGet(fm, file_id)
    IN IF Falsy(file_id)
       THEN Outcome(<<MsgFileIdRequired>>, FALSE, tfm)
       ELSE IF file = NoFile
       THEN Outcome(<<MsgNotFound(file_id)>>, FALSE, tfm)
       ELSE IF Falsy(target)
       THEN Outcome(<<MsgTargetRequired>>, FALSE, tfm)
       ELSE IF parameter_name = None
       THEN Outcome(<<>>, TRUE, tfm)
       ELSE IF target = S_self
       THEN Outcome(<<SelfDelivery(file)>>, FALSE, tfm)
       ELSE DispatchToTool(tfm, file, target, parameter_name)

\* Lines 122-183
_invoke(fm, tfm, tool_parameters) ==
    LET file_id == Get(tool_parameters, "file_id", None)
        target == Get(tool_parameters, "target", None)
        parameter_name == Get(tool_parameters, "parameter_name", S_file)
        file == FileMapGet(fm, file_id)
    IN IF Falsy(file_id)
       THEN Outcome(<<MsgFileIdRequired>>, FALSE, tfm)
       ELSE IF file = NoFile
       THEN Outcome(<<MsgNotFound(file_id)>>, FALSE, tfm)
       ELSE IF Falsy(target)
       THEN Outcome(<<MsgTargetRequired>>, FALSE, tfm)
       ELSE IF target = S_self
       THEN Outcome(<<SelfDelivery(file)>>, FALSE, tfm)
       ELSE DispatchToTool(tfm, file, target, parameter_name)

----------------------------------------------------------------------------
(* Construction *)

Routers == {"r1", "r2"}
Threads == {"th1", "th2"}

\* dict objects: the one the orchestrator owns and passes around, and the
\* dict literal {} each __init__ may create at line 40
Shared == <<"shared">>
Fresh(r) == <<"fresh", r>>
TableIds == {Shared} \cup {Fresh(r) : r \in Routers}

Unconstructed == <<"unconstructed">>
NoRef == <<"noref">>
NoRouter == "none"

\* Line 40: tool_file_map or {} ; arg is None or a dict object of the heap
InitToolFileMap(r, arg, h) ==
    IF arg = None \/ h[arg] = EmptyDict THEN Fresh(r) ELSE arg

\* One catalog with unique filenames (one of them empty, as line 84 allows
\* for), one where two files share a filename
Catalogs == { <<FE, FA, FB>>, <<FA, FA2>> }

InitialContents == { EmptyDict, Store(EmptyDict, S_t, S_file, FA) }

\* tool_parameters.get(key) turns a missing file_id or target into None, so
\* Absent stands for both; for parameter_name the default makes them differ
FileIds == {Absent, S_empty, S_a, S_b}

Targets == {Absent, S_empty, <<SP>>,
            S_self, <<SP>> \o S_self \o <<SP>>, S_functions \o S_self,
            S_t, <<TAB>> \o S_t \o <<SP>>, S_functions \o S_t,
            S_functions \o S_t \o <<SP>>, S_functions}

ParameterNames == {Absent, None, S_empty, S_p, <<SP>> \o S_p \o <<SP>>}

ToolParameters ==
    [file_id : FileIds, target : Targets, parameter_name : ParameterNames]

NoCall == [router |-> NoRouter, tool_parameters |-> NoMeta, msgs |-> <<>>,
           raised |-> FALSE, before |-> EmptyDict]

NoRouted == [k \in {} |-> NoFile]

IdleThread == [pc |-> "idle", tool_name |-> S_empty, param_name |-> S_empty,
               file |-> NoFile, inner |-> "none", absent0 |-> FALSE]

\* How the session that owns the tool constructs it: with no table, with a
\* table that is still empty, or with a table that already holds an entry
Sessions ==
    { [arg |-> None, content |-> EmptyDict] }
    \cup { [arg |-> Shared, content |-> c] : c \in InitialContents }

Init ==
    /\ files \in Catalogs
    /\ file_map = BuildFileMap(files)
    /\ \E s \in Sessions :
          /\ heap = [id \in TableIds |-> IF id = Shared THEN s.content ELSE EmptyDict]
          /\ supplied = [r \in Routers |-> IF r = "r1" THEN s.arg ELSE Unconstructed]
          /\ tool_file_map = [r \in Routers |->
                IF r = "r1" THEN InitToolFileMap(r, s.arg, heap) ELSE NoRef]
    /\ last = NoCall
    /\ calls = 0
    /\ routed = [id \in TableIds |-> NoRouted]
    /\ thr = [t \in Threads |-> IdleThread]
    /\ innerId = [k \in DOMAIN heap[tool_file_map["r1"]] |-> "init"]

----------------------------------------------------------------------------
(* Sequential operation: one _invoke call runs to completion *)

IsRouted(m) == m.type = "FILE" /\ "target_tool" \in DOMAIN m.meta
IsSelf(m) == m.type = "FILE" /\ "target" \in DOMAIN m.meta

EndsInRoutedMsgs(msgs) == msgs # <<>> /\ IsRouted(msgs[Len(msgs)])

\* The history of routed-delivery messages, updated from the messages alone
Record(hist, msgs) ==
    IF msgs # <<>> /\ IsRouted(msgs[Len(msgs)])
    THEN LET m == msgs[Len(msgs)].meta
             key == <<m.target_tool, m.parameter_name>>
         IN [k \in DOMAIN hist \cup {key} |-> IF k = key THEN m.file ELSE hist[k]]
    ELSE hist

\* One call of _invoke on instance r whose generator the caller has consumed
\* to its end: lines 122-183 with the write of line 176 to the dict object
\* the instance refers to
Dispatch(r, tool_parameters) ==
    /\ calls < MaxCalls
    /\ tool_file_map[r] # NoRef
    /\ LET ref == tool_file_map[r]
           out == _invoke(file_map, heap[ref], tool_parameters)
       IN /\ heap' = [heap EXCEPT ![ref] = out.tfm]
          /\ last' = [router |-> r, tool_parameters |-> tool_parameters,
                      msgs |-> out.msgs, raised |-> out.raised,
                      before |-> heap[ref]]
          /\ routed' = [routed EXCEPT ![ref] = Record(@, out.msgs)]
    /\ calls' = calls + 1
    /\ UNCHANGED <<files, file_map, tool_file_map, supplied, thr, innerId>>

Next == \E p \in ToolParameters : Dispatch("r1", p)

Spec == Init /\ [][Next]_vars


----------------------------------------------------------------------------
(* Several instances: a second tool is constructed during the session, with *)
(* no table or with the session's table, and both are invoked in turn.      *)

\* Lines 27-40; every instance of the session gets the same files
Construct(r, arg) ==
    /\ supplied[r] = Unconstructed
    /\ supplied' = [supplied EXCEPT ![r] = arg]
    /\ tool_file_map' = [tool_file_map EXCEPT ![r] = InitToolFileMap(r, arg, heap)]
    /\ UNCHANGED <<files, file_map, heap, last, calls, routed, thr, innerId>>

ShareParameters ==
    [file_id : {S_a}, target : {S_t, S_self}, parameter_name : {S_p, Absent}]

NextShare ==
    \/ \E r \in Routers : \E arg \in {None, Shared} : Construct(r, arg)
    \/ \E r \in Routers : \E p \in ShareParameters : Dispatch(r, p)

SpecShare == Init /\ [][NextShare]_vars

----------------------------------------------------------------------------
(* Concurrent operation: two threads invoke the instance r1, and a thread   *)
(* switch can fall between any two of the steps of lines 173-183.           *)

Ref == tool_file_map["r1"]

SetLocals(t, rec) == thr' = [thr EXCEPT ![t] = rec]

\* Lines 131-171 read the call's arguments and file_map only.  A call that
\* passes them arrives at line 174 with its locals; any other call ends here.
Begin(t, tool_parameters) ==
    /\ thr[t].pc \in {"idle", "done"}
    /\ calls < MaxCalls
    /\ calls' = calls + 1
    /\ LET msgs == _invoke(file_map, EmptyDict, tool_parameters).msgs
       IN IF EndsInRoutedMsgs(msgs)
          THEN LET m == msgs[Len(msgs)].meta
               IN SetLocals(t, [pc |-> "L174",
                                tool_name |-> m.target_tool,
                                param_name |-> m.parameter_name,
                                file |-> m.file,
                                inner |-> "none",
                                absent0 |-> m.target_tool \notin DOMAIN heap[Ref]])
          ELSE SetLocals(t, IdleThread)
    /\ UNCHANGED <<files, file_map, tool_file_map, heap, supplied, last, routed,
                   innerId>>

\* Line 174: if tool_name not in self.tool_file_map
L174(t) ==
    /\ thr[t].pc = "L174"
    /\ SetLocals(t, [thr[t] EXCEPT !.pc =
          IF thr[t].tool_name \in DOMAIN heap[Ref] THEN "L176" ELSE "L175"])
    /\ UNCHANGED <<files, file_map, tool_file_map, heap, supplied, last, calls,
                   routed, innerId>>

\* Line 175: self.tool_file_map[tool_name] = {}, a new inner dict
L175(t) ==
    /\ thr[t].pc = "L175"
    /\ LET tfm == heap[Ref]
           name == thr[t].tool_name
       IN /\ heap' = [heap EXCEPT ![Ref] =
                [k \in DOMAIN tfm \cup {name} |->
                    IF k = name THEN EmptyDict ELSE tfm[k]]]
          /\ innerId' = [k \in DOMAIN innerId \cup {name} |->
                    IF k = name THEN t ELSE innerId[k]]
    /\ SetLocals(t, [thr[t] EXCEPT !.pc = "L176"])
    /\ UNCHANGED <<files, file_map, tool_file_map, supplied, last, calls, routed>>

\* Line 176, first half: self.tool_file_map[tool_name] is loaded
L176_load(t) ==
    /\ thr[t].pc = "L176"
    /\ SetLocals(t, [thr[t] EXCEPT !.pc = "L176_store",
                                   !.inner = innerId[thr[t].tool_name]])
    /\ UNCHANGED <<files, file_map, tool_file_map, heap, supplied, last, calls,
                   routed, innerId>>

\* Line 176, second half: [param_name] = file on the inner dict loaded; the
\* table shows it only if that dict is still the one under tool_name
L176_store(t) ==
    /\ thr[t].pc = "L176_store"
    /\ heap' = IF innerId[thr[t].tool_name] = thr[t].inner
               THEN [heap EXCEPT ![Ref] =
                        Store(@, thr[t].tool_name, thr[t].param_name, thr[t].file)]
               ELSE heap
    /\ SetLocals(t, [thr[t] EXCEPT !.pc = "L179"])
    /\ UNCHANGED <<files, file_map, tool_file_map, supplied, last, calls, routed,
                   innerId>>

\* Lines 179-183: the routed-delivery message is yielded and the call ends
L179(t) ==
    /\ thr[t].pc = "L179"
    /\ SetLocals(t, [thr[t] EXCEPT !.pc = "done"])
    /\ UNCHANGED <<files, file_map, tool_file_map, heap, supplied, last, calls,
                   routed, innerId>>

ConcParameters ==
    [file_id : {S_a, S_b}, target : {S_t, S_self}, parameter_name : {S_p, Absent}]

NextConc ==
    \E t \in Threads :
        \/ \E p \in ConcParameters : Begin(t, p)
        \/ L174(t)
        \/ L175(t)
        \/ L176_load(t)
        \/ L176_store(t)
        \/ L179(t)

SpecConc == Init /\ [][NextConc]_vars

----------------------------------------------------------------------------
(* Vocabulary of the properties.  What a string is "after trimming" and     *)
(* "without the prefix" is stated here declaratively, apart from the        *)
(* operators above that compute it the way the code does.                   *)

Min(S) == CHOOSE x \in S : \A y \in S : x <= y
Max(S) == CHOOSE x \in S : \A y \in S : x >= y

IsStr(x) == x # None /\ x # Absent

Trimmed(s) ==
    LET solid == {i \in 1..Len(s) : s[i] \notin Whitespace}
    IN IF solid = {} THEN <<>> ELSE SubSeq(s, Min(solid), Max(solid))

HasFunctionsPrefix(s) ==
    /\ Len(s) >= Len(S_functions)
    /\ \A i \in 1..Len(S_functions) : s[i] = S_functions[i]

WithoutFunctionsPrefix(s) ==
    IF HasFunctionsPrefix(s) THEN SubSeq(s, Len(S_functions) + 1, Len(s)) ELSE s

\* The tool name a target is normalized to: trimmed, then one prefix removed
Normalized(target) == WithoutFunctionsPrefix(Trimmed(target))

Called == last.router # NoRouter
ArgFileId == last.tool_parameters.file_id
ArgTarget == last.tool_parameters.target
ArgParameterName == last.tool_parameters.parameter_name
LastTable == heap[tool_file_map[last.router]]

CatalogFiles == {files[i] : i \in DOMAIN files}
CatalogFilenames == {f.filename : f \in CatalogFiles}
UniqueFilenames ==
    \A i, j \in DOMAIN files : files[i].filename = files[j].filename => i = j
FilesNamed(file_id) == {f \in CatalogFiles : f.filename = file_id}

ValidFileId == IsStr(ArgFileId) /\ ArgFileId # S_empty /\ ArgFileId \in CatalogFilenames

FailureDiagnostics ==
    {MsgFileIdRequired, MsgTargetRequired, MsgToolNameEmpty, MsgParamNameEmpty}
    \cup {MsgNotFound(id) : id \in FileIds}

Failures(msgs) == SelectSeq(msgs, LAMBDA m : m \in FailureDiagnostics)
Terminals(msgs) == SelectSeq(msgs, LAMBDA m : m.type = "FILE")
EndsInFailure(msgs) == msgs # <<>> /\ msgs[Len(msgs)] \in FailureDiagnostics
EndsInRouted(msgs) == EndsInRoutedMsgs(msgs)

Holds(tfm, tool_name, param_name, fs) ==
    /\ tool_name \in DOMAIN tfm
    /\ param_name \in DOMAIN tfm[tool_name]
    /\ tfm[tool_name][param_name] \in fs

----------------------------------------------------------------------------
(* C1 *)

\* C1, as stated: for a catalog with unique filenames, a fileId that is a
\* catalog filename, a non-empty tool name T and a non-empty parameter name
\* P, after dispatch(fileId, T, P) the table holds under [T][P] the file
\* named fileId.
C1_Original ==
    ( /\ Called /\ UniqueFilenames
      /\ IsStr(ArgFileId) /\ ArgFileId \in CatalogFilenames
      /\ IsStr(ArgTarget) /\ ArgTarget # S_empty
      /\ IsStr(ArgParameterName) /\ ArgParameterName # S_empty )
    => Holds(LastTable, ArgTarget, ArgParameterName, FilesNamed(ArgFileId))

\* C1, amended: for a catalog with unique filenames, a non-empty fileId that
\* is a catalog filename, a target T other than "self" whose normalized name
\* (T trimmed, then one leading "functions." removed) is non-empty, and a
\* parameter name P that is non-empty after trimming: after
\* dispatch(fileId, T, P) the table holds the file named fileId under
\* [normalized T][trimmed P].
C1_RoutedFileIsStored ==
    ( /\ Called /\ UniqueFilenames /\ ValidFileId
      /\ IsStr(ArgTarget) /\ ArgTarget # S_self /\ Normalized(ArgTarget) # S_empty
      /\ IsStr(ArgParameterName) /\ Trimmed(ArgParameterName) # S_empty )
    => Holds(LastTable, Normalized(ArgTarget), Trimmed(ArgParameterName),
             FilesNamed(ArgFileId))

\* A dispatch of file "b" to target "\tt " and parameter " p " has run and
\* the table holds it under ["t"]["p"].
C1_Witness ==
    /\ Called /\ UniqueFilenames
    /\ ArgFileId = S_b
    /\ ArgTarget = <<TAB>> \o S_t \o <<SP>>
    /\ ArgParameterName = <<SP>> \o S_p \o <<SP>>
    /\ Holds(LastTable, S_t, S_p, {FB})

----------------------------------------------------------------------------
(* C2 *)

\* C2: a call that ends in a failure diagnostic leaves every table as it
\* was, and a call that changes a table ends in a routed-delivery message.
C2_OnlyRoutedCallsChangeTheTable ==
    [][ calls' # calls =>
          /\ EndsInFailure(last'.msgs) => heap' = heap
          /\ heap' # heap => EndsInRouted(last'.msgs) ]_vars

\* A call on a non-empty table has ended with the parameter-name diagnostic,
\* after the prefix note, and the table is what it was.
C2_Witness ==
    /\ Called
    /\ last.before # EmptyDict
    /\ Len(last.msgs) = 2
    /\ last.msgs[2] = MsgParamNameEmpty
    /\ LastTable = last.before

----------------------------------------------------------------------------
(* C3 *)

\* C3, as stated: for every fileId that is a catalog filename and every
\* parameterName, dispatch(fileId, "self", p) yields exactly one message, the
\* self-delivery of a catalog file of that name, and the table is unchanged.
C3_Original ==
    ( /\ Called
      /\ IsStr(ArgFileId) /\ ArgFileId \in CatalogFilenames
      /\ ArgTarget = S_self )
    => /\ ~last.raised
       /\ Len(last.msgs) = 1
       /\ IsSelf(last.msgs[1])
       /\ last.msgs[1].meta.target = S_self
       /\ last.msgs[1].meta.file \in FilesNamed(ArgFileId)
       /\ UniqueFilenames => {last.msgs[1].meta.file} = FilesNamed(ArgFileId)
       /\ LastTable = last.before

\* C3, amended: the same for every non-empty fileId that is a catalog
\* filename.
C3_SelfDelivery ==
    ( /\ Called /\ ValidFileId /\ ArgTarget = S_self )
    => /\ ~last.raised
       /\ Len(last.msgs) = 1
       /\ IsSelf(last.msgs[1])
       /\ last.msgs[1].meta.target = S_self
       /\ last.msgs[1].meta.file \in FilesNamed(ArgFileId)
       /\ UniqueFilenames => {last.msgs[1].meta.file} = FilesNamed(ArgFileId)
       /\ LastTable = last.before

\* A self dispatch with parameter_name None has delivered file "a" and left
\* a non-empty table alone.
C3_Witness ==
    /\ Called /\ ArgFileId = S_a /\ ArgTarget = S_self
    /\ ArgParameterName = None
    /\ last.msgs = <<SelfDelivery(file_map[S_a])>>
    /\ last.before # EmptyDict

----------------------------------------------------------------------------
(* C5 *)

\* Every entry of a table is the file of the last routed delivery to its
\* pair, or, for a pair never dispatched to, an entry the table started with.
LastWriteWins ==
    \A id \in TableIds :
        /\ \A k \in DOMAIN routed[id] :
              Holds(heap[id], k[1], k[2], {routed[id][k]})
        /\ \A t \in DOMAIN heap[id] : \A p \in DOMAIN heap[id][t] :
              \/ <<t, p>> \in DOMAIN routed[id]
              \/ \E c \in InitialContents : Holds(c, t, p, {heap[id][t][p]})

\* C5: last write wins in every state, and dispatching the same triple again
\* leaves the table as the first dispatch left it.
C5_LastWriteWins ==
    /\ []LastWriteWins
    /\ [][ ( /\ calls' # calls
             /\ last'.router = last.router
             /\ last'.tool_parameters = last.tool_parameters ) => heap' = heap ]_vars

\* The second of two routed dispatches to one pair has replaced the file of
\* the first.
C5_Witness ==
    /\ Called /\ EndsInRouted(last.msgs)
    /\ LET m == last.msgs[Len(last.msgs)].meta
       IN /\ m.target_tool \in DOMAIN last.before
          /\ m.parameter_name \in DOMAIN last.before[m.target_tool]
          /\ last.before[m.target_tool][m.parameter_name] # m.file
          /\ LastTable[m.target_tool][m.parameter_name] = m.file
    /\ calls = 2

----------------------------------------------------------------------------
(* C6 *)

\* C6, as stated: for a valid fileId, a non-empty name N and a non-empty
\* parameter name P, dispatch(fileId, "functions." + N, P) yields the note
\* naming N and then the routed delivery for (N, P), and writes [N][P], not
\* ["functions." + N][P].
C6_Original ==
    ( /\ Called /\ ValidFileId
      /\ IsStr(ArgTarget) /\ HasFunctionsPrefix(ArgTarget)
      /\ WithoutFunctionsPrefix(ArgTarget) # S_empty
      /\ IsStr(ArgParameterName) /\ ArgParameterName # S_empty )
    => LET N == WithoutFunctionsPrefix(ArgTarget)
           P == ArgParameterName
       IN /\ ~last.raised
          /\ Len(last.msgs) = 2
          /\ last.msgs[1] = MsgPrefixRemoved(N)
          /\ IsRouted(last.msgs[2])
          /\ last.msgs[2].meta.target_tool = N
          /\ last.msgs[2].meta.parameter_name = P
          /\ last.msgs[2].meta.file \in FilesNamed(ArgFileId)
          /\ Holds(LastTable, N, P, {last.msgs[2].meta.file})
          /\ ArgTarget \in DOMAIN LastTable => ArgTarget \in DOMAIN last.before

\* C6, amended: the same for every N and P that are non-empty after
\* trimming, with N and P replaced by N trimmed of its trailing whitespace
\* and P trimmed on both sides.
C6_PrefixIsStripped ==
    ( /\ Called /\ ValidFileId
      /\ IsStr(ArgTarget) /\ HasFunctionsPrefix(ArgTarget)
      /\ Normalized(ArgTarget) # S_empty
      /\ IsStr(ArgParameterName) /\ Trimmed(ArgParameterName) # S_empty )
    => LET N == Normalized(ArgTarget)
           P == Trimmed(ArgParameterName)
       IN /\ ~last.raised
          /\ Len(last.msgs) = 2
          /\ last.msgs[1] = MsgPrefixRemoved(N)
          /\ IsRouted(last.msgs[2])
          /\ last.msgs[2].meta.target_tool = N
          /\ last.msgs[2].meta.parameter_name = P
          /\ last.msgs[2].meta.file \in FilesNamed(ArgFileId)
          /\ Holds(LastTable, N, P, {last.msgs[2].meta.file})
          /\ ArgTarget \in DOMAIN LastTable => ArgTarget \in DOMAIN last.before

\* "functions.t " with parameter " p " has been dispatched: note, routed
\* delivery, and the entry ["t"]["p"].
C6_Witness ==
    /\ Called /\ ValidFileId
    /\ ArgTarget = S_functions \o S_t \o <<SP>>
    /\ ArgParameterName = <<SP>> \o S_p \o <<SP>>
    /\ last.msgs[1] = MsgPrefixRemoved(S_t)
    /\ Holds(LastTable, S_t, S_p, FilesNamed(ArgFileId))

----------------------------------------------------------------------------
(* C7 *)

\* C7: every call, whatever of its three inputs is absent, None, empty or a
\* string, ends without raising, with a message sequence that ends in one
\* terminal outcome or in a failure diagnostic.
C7_NeverRaises ==
    Called =>
        /\ ~last.raised
        /\ last.msgs # <<>>
        /\ \/ EndsInFailure(last.msgs) /\ Terminals(last.msgs) = <<>>
           \/ /\ Len(Terminals(last.msgs)) = 1
              /\ last.msgs[Len(last.msgs)].type = "FILE"
              /\ Failures(last.msgs) = <<>>

----------------------------------------------------------------------------
(* C8 *)

\* The checks of the claimed order that the last call's input violates
Violated ==
    LET p == ArgParameterName
        param == IF p = Absent THEN S_file ELSE p
    IN {k \in 1..5 :
          \/ k = 1 /\ (~IsStr(ArgFileId) \/ ArgFileId = S_empty)
          \/ k = 2 /\ ArgFileId \notin CatalogFilenames
          \/ k = 3 /\ (~IsStr(ArgTarget) \/ ArgTarget = S_empty)
          \/ k = 4 /\ IsStr(ArgTarget) /\ ArgTarget # S_empty
                   /\ Normalized(ArgTarget) = S_empty
          \/ k = 5 /\ ArgTarget # S_self
                   /\ (param = None \/ Trimmed(param) = S_empty)}

DiagnosticOf(k) ==
    CASE k = 1 -> MsgFileIdRequired
      [] k = 2 -> MsgNotFound(ArgFileId)
      [] k = 3 -> MsgTargetRequired
      [] k = 4 -> MsgToolNameEmpty
      [] k = 5 -> MsgParamNameEmpty

\* C8: an input that violates several checks gets the failure diagnostic of
\* the first violated check in the order 1..5, and of no later one.
C8_FirstViolatedCheckReported ==
    (Called /\ Cardinality(Violated) >= 2)
    => Failures(last.msgs) = <<DiagnosticOf(Min(Violated))>>

----------------------------------------------------------------------------
(* C10 *)

\* C10: starting from tables without an entry under the tool name "self",
\* no sequence of dispatch calls creates one.
C10_NoEntryUnderSelf == \A id \in TableIds : S_self \notin DOMAIN heap[id]

----------------------------------------------------------------------------
(* C4 *)

\* C4: an instance constructed with a table uses that very table, also when
\* the table is still empty, so that a routed dispatch of the instance shows
\* in the supplied table; only an instance constructed without a table makes
\* its own.
C4_SuppliedTableIsUsed ==
    ( /\ Called /\ supplied[last.router] = Shared /\ EndsInRouted(last.msgs) )
    => LET m == last.msgs[Len(last.msgs)].meta
       IN /\ Holds(heap[Shared], m.target_tool, m.parameter_name, {m.file})
          /\ \A r \in Routers : supplied[r] = Shared =>
                Holds(heap[tool_file_map[r]], m.target_tool, m.parameter_name,
                      {m.file})

----------------------------------------------------------------------------
(* C9 *)

\* C9: when two routed dispatches to one tool name and two parameter names,
\* both begun on a table without that tool name, have both ended, the table
\* holds both files under that tool name.
C9_NoLostUpdate ==
    ( /\ \A t \in Threads : thr[t].pc = "done" /\ thr[t].absent0
      /\ thr["th1"].tool_name = thr["th2"].tool_name
      /\ thr["th1"].param_name # thr["th2"].param_name )
    => \A t \in Threads :
          Holds(heap[Ref], thr[t].tool_name, thr[t].param_name, {thr[t].file})

=============================================================================
